---- MODULE Spec2Model ----
(***************************************************************************)
(* A model of mplsoccer.quiver: the function arrows(), a wrapper around    *)
(* matplotlib's Axes.quiver, and the legend handler HandlerQuiver.         *)
(*                                                                         *)
(* Numbers.  Coordinates are integers (NumPy integer arrays subtract       *)
(* exactly).  The widths and head multipliers are Python floats; they are  *)
(* modelled as binary floating-point numbers <<m, e>> = m * 2^e with a     *)
(* significand of Prec bits and round-to-nearest-even, the arithmetic of   *)
(* an IEEE-754 double scaled down from 53 bits to Prec bits (no overflow   *)
(* or underflow: the exponent is unbounded).                               *)
(***************************************************************************)
EXTENDS Integers, Sequences, FiniteSets, TLC

VARIABLES ax, default_handler_map, handlers_created, call, ret

vars == <<ax, default_handler_map, handlers_created, call, ret>>

(***************************************************************************)
(* Bounds of the model.                                                    *)
(***************************************************************************)
\* Bits in a float's significand (53 for a Python float).
Prec == 5
\* Largest number of elements of an input array.
MaxLen == 2
\* Largest number of keyword arguments a caller passes through **kwargs.
MaxKw == 2
\* Largest number of arrows() calls in one run.
MaxCalls == 2

(***************************************************************************)
(* Binary floating-point arithmetic with Prec-bit significands.            *)
(***************************************************************************)
RECURSIVE Pow2(_)
Pow2(n) == IF n <= 0 THEN 1 ELSE 2 * Pow2(n - 1)

Abs(n) == IF n < 0 THEN -n ELSE n

\* The canonical form of m * 2^e: m odd, or <<0, 0>>.
RECURSIVE Canon(_, _)
Canon(m, e) ==
    IF m = 0 THEN <<0, 0>>
    ELSE IF m % 2 = 0 THEN Canon(m \div 2, e + 1)
    ELSE <<m, e>>

\* The significands with a guard bit are the integers in [Lowest, 2 * Lowest).
Lowest == Pow2(Prec)

\* Scale n/d * 2^e so that 2^Prec <= n/d < 2^(Prec+1): one guard bit.
RECURSIVE Normalise(_, _, _)
Normalise(n, d, e) ==
    IF n < d * Lowest THEN Normalise(2 * n, d, e - 1)
    ELSE IF n >= 2 * d * Lowest THEN Normalise(n, 2 * d, e + 1)
    ELSE <<n, d, e>>

\* sign * (n/d) * 2^e rounded to the nearest float, ties to even (n >= 0, d > 0).
RoundNearestEven(sign, n, d, e) ==
    IF n = 0 THEN <<0, 0>>
    ELSE LET s == Normalise(n, d, e)
             Q == s[1] \div s[2]
             R == s[1] % s[2]
             M == Q \div 2
             up == (Q % 2 = 1) /\ (R # 0 \/ M % 2 = 1)
         IN  Canon(sign * (IF up THEN M + 1 ELSE M), s[3] + 1)

Sign(m) == IF m < 0 THEN -1 ELSE 1

\* Python's float a * b.
FMul(a, b) == RoundNearestEven(Sign(a[1]) * Sign(b[1]), Abs(a[1]) * Abs(b[1]), 1, a[2] + b[2])

\* Python's float a / b for b # 0 (b = 0 raises ZeroDivisionError: see the callers).
FDiv(a, b) == RoundNearestEven(Sign(a[1]) * Sign(b[1]), Abs(a[1]), Abs(b[1]), a[2] - b[2])

Min(i, j) == IF i < j THEN i ELSE j

\* The exact integer a / 2^e for an exponent e no larger than a's.
Scaled(a, e) == a[1] * Pow2(a[2] - e)

\* Python's float a - b.
FSub(a, b) ==
    LET e == Min(a[2], b[2])
        n == Scaled(a, e) - Scaled(b, e)
    IN  RoundNearestEven(Sign(n), Abs(n), 1, e)

\* The exact order of two floats.
FLess(a, b) == LET e == Min(a[2], b[2]) IN Scaled(a, e) < Scaled(b, e)

\* The float of a (small) integer.
Float(n) == Canon(n, 0)

\* The numbers the source writes as literals.
PointsPerInch == Float(72)
DefaultWidth == Float(4)
DefaultScale == Float(1)
DefaultHeadWidth == Float(3)
DefaultHeadLength == Float(5)
DefaultHeadAxisLength == <<9, -1>>

(***************************************************************************)
(* Array-like inputs: a scalar, or a (nested) list of array-likes.         *)
(***************************************************************************)
Scalar(v) == <<"scalar", v>>
List(s) == <<"list", s>>
IsScalar(a) == a[1] = "scalar"

RECURSIVE ConcatAll(_)
ConcatAll(ss) == IF ss = <<>> THEN <<>> ELSE Head(ss) \o ConcatAll(Tail(ss))

\* The sequence f[1], ..., f[n].
RECURSIVE FirstN(_, _)
FirstN(f, n) == IF n = 0 THEN <<>> ELSE Append(FirstN(f, n - 1), f[n])

\* A flattening in column-major order (order='F') of an array of one or two
\* dimensions.
ravelColumnMajor(a) ==
    IF IsScalar(a) THEN <<a[2]>>
    ELSE IF a[2] = <<>> \/ IsScalar(a[2][1])
         THEN FirstN([i \in 1..Len(a[2]) |-> a[2][i][2]], Len(a[2]))
         ELSE LET r == Len(a[2])
                  c == Len(a[2][1][2])
              IN  FirstN([k \in 1..(r * c) |->
                             a[2][((k - 1) % r) + 1][2][((k - 1) \div r) + 1][2]], r * c)

\* np.ravel: the elements in row-major order, as a one-dimensional array.
RECURSIVE ravel(_)
ravel(a) ==
    IF IsScalar(a) THEN <<a[2]>>
    ELSE ConcatAll([i \in 1..Len(a[2]) |-> ravel(a[2][i])])

\* ndarray.size of a one-dimensional array.
size(a) == Len(a)

\* Elementwise a - b of two one-dimensional integer arrays of the same size.
Minus(a, b) == FirstN([i \in 1..Len(a) |-> a[i] - b[i]], Len(a))

(***************************************************************************)
(* Dicts (the keyword arguments, the legend's handler map): <<key, value>> *)
(* pairs with distinct keys, in insertion order.                           *)
(***************************************************************************)
Keys(kwargs) == {kwargs[i][1] : i \in DOMAIN kwargs}

Get(kwargs, key) == kwargs[CHOOSE i \in DOMAIN kwargs : kwargs[i][1] = key][2]

Without(kwargs, key) == SelectSeq(kwargs, LAMBDA item : item[1] # key)

\* A lookup that leaves the key in the dict (dict.get).
PopKeeping(kwargs, key, default) ==
    [value |-> IF key \in Keys(kwargs) THEN Get(kwargs, key) ELSE default,
     kwargs |-> kwargs]

\* dict.pop(key, default): the value, and the dict without the key.
Pop(kwargs, key, default) ==
    [value |-> IF key \in Keys(kwargs) THEN Get(kwargs, key) ELSE default,
     kwargs |-> Without(kwargs, key)]

(***************************************************************************)
(* arrows()                                                                *)
(***************************************************************************)
NoError == "no error"

\* A size check that compares each start with its end, and not x with y.
SizeCheckWithinAxes(xstart, ystart, xend, yend) ==
    IF size(xstart) # size(xend) THEN "xstart and xend must be the same size"
    ELSE IF size(ystart) # size(yend) THEN "ystart and yend must be the same size"
    ELSE NoError

\* A size check that runs the last two comparisons in the other order.
SizeCheckReordered(xstart, ystart, xend, yend) ==
    IF size(xstart) # size(ystart) THEN "xstart and ystart must be the same size"
    ELSE IF size(ystart) # size(yend) THEN "ystart and yend must be the same size"
    ELSE IF size(xstart) # size(xend) THEN "xstart and xend must be the same size"
    ELSE NoError

\* The three size comparisons: the message of the ValueError raised, or NoError.
SizeCheck(xstart, ystart, xend, yend) ==
    IF size(xstart) # size(ystart) THEN "xstart and ystart must be the same size"
    ELSE IF size(xstart) # size(xend) THEN "xstart and xend must be the same size"
    ELSE IF size(ystart) # size(yend) THEN "ystart and yend must be the same size"
    ELSE NoError

\* A direction taken from the end point to the start point.
DirectionReversed(start, end) == Minus(start, end)

\* The direction vector of each arrow: u = xend - xstart, v = yend - ystart.
Direction(start, end) == Minus(end, start)

\* A vertical layout that switches the locations but not the directions.
OrientLocationsOnly(vertical, xstart, ystart, u, v) ==
    IF vertical THEN [X |-> ystart, Y |-> xstart, U |-> u, V |-> v]
    ELSE [X |-> xstart, Y |-> ystart, U |-> u, V |-> v]

\* if vertical: ystart, xstart = xstart, ystart; v, u = u, v
Orient(vertical, xstart, ystart, u, v) ==
    IF vertical THEN [X |-> ystart, Y |-> xstart, U |-> v, V |-> u]
    ELSE [X |-> xstart, Y |-> ystart, U |-> u, V |-> v]

\* A width handed on in points, without the division.
WidthInPoints(width) == width

\* width = width / 72.
WidthInInches(width) == FDiv(width, PointsPerInch)

\* The options read with dict.get, which leaves them in kwargs.
OptionsKept(kwargs) ==
    LET units == PopKeeping(kwargs, "units", "inches")
        scale_units == PopKeeping(units.kwargs, "scale_units", "xy")
        angles == PopKeeping(scale_units.kwargs, "angles", "xy")
        scale == PopKeeping(angles.kwargs, "scale", DefaultScale)
        width == PopKeeping(scale.kwargs, "width", DefaultWidth)
    IN  [units |-> units.value, scale_units |-> scale_units.value,
         angles |-> angles.value, scale |-> scale.value,
         width |-> WidthInInches(width.value), kwargs |-> width.kwargs]

\* The five kwargs.pop lines and the conversion of the width.
Options(kwargs) ==
    LET units == Pop(kwargs, "units", "inches")
        scale_units == Pop(units.kwargs, "scale_units", "xy")
        angles == Pop(scale_units.kwargs, "angles", "xy")
        scale == Pop(angles.kwargs, "scale", DefaultScale)
        width == Pop(scale.kwargs, "width", DefaultWidth)
    IN  [units |-> units.value, scale_units |-> scale_units.value,
         angles |-> angles.value, scale |-> scale.value,
         width |-> WidthInInches(width.value), kwargs |-> width.kwargs]

\* What ax.quiver receives: the positional arguments X, Y, U, V, *args and the
\* keywords, the five named ones first and then **kwargs.
QuiverCall(c, xstart, ystart, xend, yend) ==
    LET o == Options(c.kwargs)
        u == Direction(xstart, xend)
        v == Direction(ystart, yend)
        p == Orient(c.vertical, xstart, ystart, u, v)
    IN  [X |-> p.X, Y |-> p.Y, U |-> p.U, V |-> p.V, args |-> c.args,
         kw |-> << <<"units", o.units>>, <<"scale_units", o.scale_units>>,
                   <<"angles", o.angles>>, <<"scale", o.scale>>,
                   <<"width", o.width>> >> \o o.kwargs]

\* A registration that replaces the whole map.
SetHandlerMap(map, type, handler) == << <<type, handler>> >>

\* Legend.update_default_handler_map({type: handler}), a dict.update: the
\* entry of the type is replaced where it stands, or added at the end.
UpdateHandlerMap(map, type, handler) ==
    IF type \in Keys(map)
    THEN FirstN([i \in 1..Len(map) |->
                    IF map[i][1] = type THEN <<type, handler>> ELSE map[i]], Len(map))
    ELSE Append(map, <<type, handler>>)

\* HandlerQuiver(): the n-th instance created.
HandlerQuiver(n) == [class |-> "HandlerQuiver", id |-> n]

Returned(value) == [outcome |-> "return", exc |-> "", msg |-> "", value |-> <<value>>]
Raised(exc, msg) == [outcome |-> "raise", exc |-> exc, msg |-> msg, value |-> <<>>]

\* The outcome of the call c = arrows(xstart, ystart, xend, yend, *args, ax=ax,
\* vertical=..., **kwargs) with a Matplotlib Axes as ax (which validate_ax
\* accepts): the ValueError of the size check, or the Quiver of the ax.quiver call.
Arrows(c) ==
    LET xstart == ravel(c.xstart)
        ystart == ravel(c.ystart)
        xend == ravel(c.xend)
        yend == ravel(c.yend)
        error == SizeCheck(xstart, ystart, xend, yend)
    IN  IF error # NoError THEN Raised("ValueError", error)
        ELSE Returned(QuiverCall(c, xstart, ystart, xend, yend))

\* One call of arrows(): on success the Quiver is on the axes and a new
\* HandlerQuiver is registered for the type Quiver.
arrows(c) ==
    LET r == Arrows(c)
    IN  /\ handlers_created < MaxCalls
        /\ call' = [op |-> "arrows", xstart |-> c.xstart, ystart |-> c.ystart,
                    xend |-> c.xend, yend |-> c.yend, args |-> c.args,
                    vertical |-> c.vertical, kwargs |-> c.kwargs]
        /\ ret' = r
        /\ IF r.outcome = "raise"
           THEN UNCHANGED <<ax, default_handler_map, handlers_created>>
           ELSE /\ ax' = [n_artists |-> ax.n_artists + 1, last |-> r.value,
                          made_by |-> <<c>>]
                /\ handlers_created' = handlers_created + 1
                /\ default_handler_map' =
                       UpdateHandlerMap(default_handler_map, "Quiver",
                                        HandlerQuiver(handlers_created + 1))

(***************************************************************************)
(* HandlerQuiver.create_artists                                            *)
(***************************************************************************)
IsZero(a) == a[1] = 0

Last(s) == s[Len(s)]

\* ydata = ((height - ydescent) / 2.) * np.ones(len(xdata), float)
YData(g) ==
    LET middle == FDiv(FSub(g.height, g.ydescent), Float(2))
    IN  FirstN([i \in 1..Len(g.xdata) |-> FMul(middle, Float(1))], Len(g.xdata))

\* A shaft width taken from the handle as it is stored.
ShaftWidthStored(h) == h.width

\* width = orig_handle.width * 72.
ShaftWidth(h) == FMul(h.width, PointsPerInch)

\* A head width scaled by the head length's multiplier.
HeadWidthByLength(width, h) == FMul(width, h.headlength)

\* head_width = width * orig_handle.headwidth
HeadWidth(width, h) == FMul(width, h.headwidth)

\* head_length = width * orig_handle.headlength
HeadLength(width, h) == FMul(width, h.headlength)

\* An overhang with the two lengths exchanged in the numerator.
OverhangExchanged(h) == FDiv(FSub(h.headaxislength, h.headlength), h.headlength)

\* overhang = (headlength - headaxislength) / headlength, for headlength # 0
Overhang(h) == FDiv(FSub(h.headlength, h.headaxislength), h.headlength)

\* None if len(colors) == 0 else colors[0]
FirstOrNone(colors) == IF Len(colors) = 0 THEN "None" ELSE colors[1]

\* The call HandlerQuiver.create_artists(legend, orig_handle, ...) for a handle h
\* and a legend box g (g.xdata is what the inherited get_xdata returns).
CreateArtists(h, g) ==
    LET ydata == YData(g)
        width == ShaftWidth(h)
    IN  IF IsZero(h.headlength)
        THEN Raised("ZeroDivisionError", "float division by zero")
        ELSE IF Len(h.linewidths) = 0
        THEN Raised("IndexError", "index 0 is out of bounds")
        ELSE Returned(<< [x |-> g.xdata[1],
                          y |-> ydata[1],
                          dx |-> FSub(Last(g.xdata), g.xdata[1]),
                          dy |-> FSub(Last(ydata), ydata[1]),
                          head_width |-> HeadWidth(width, h),
                          head_length |-> HeadLength(width, h),
                          overhang |-> Overhang(h),
                          length_includes_head |-> TRUE,
                          width |-> width,
                          lw |-> h.linewidths[1],
                          edgecolor |-> FirstOrNone(h.edgecolor),
                          facecolor |-> FirstOrNone(h.facecolor),
                          transform |-> g.trans] >>)

\* The legend draws an entry for the Quiver h with the handler registered for
\* the type Quiver, a HandlerQuiver.
create_artists(h, g) ==
    /\ "Quiver" \in Keys(default_handler_map)
    /\ Get(default_handler_map, "Quiver").class = "HandlerQuiver"
    /\ call' = [op |-> "create_artists", orig_handle |-> h, legend |-> g]
    /\ ret' = CreateArtists(h, g)
    /\ UNCHANGED <<ax, default_handler_map, handlers_created>>

(***************************************************************************)
(* The Quiver artists a legend can hold.                                   *)
(***************************************************************************)
KwOr(kw, key, default) == IF key \in Keys(kw) THEN Get(kw, key) ELSE default

\* The Quiver that ax.quiver makes of the call q: the width and the head
\* multipliers are the keywords (or the documented defaults); the colours and
\* line widths are resolved by Matplotlib (the style st).
QuiverArtist(q, st) ==
    [width |-> Get(q.kw, "width"),
     headwidth |-> KwOr(q.kw, "headwidth", DefaultHeadWidth),
     headlength |-> KwOr(q.kw, "headlength", DefaultHeadLength),
     headaxislength |-> KwOr(q.kw, "headaxislength", DefaultHeadAxisLength),
     edgecolor |-> st.edgecolor,
     facecolor |-> st.facecolor,
     linewidths |-> st.linewidths]

\* The Quivers on the axes, as far as the model keeps them: the last one added.
AxesHandles(looks) ==
    {QuiverArtist(ax.last[i], st) : i \in DOMAIN ax.last, st \in looks}

(***************************************************************************)
(* The calls and handles of the bounded model.                             *)
(***************************************************************************)
\* A one-dimensional input of n elements base + step, base + 2 step, ...
Fill(base, step, n) == List(FirstN([i \in 1..n |-> Scalar(base + step * i)], n))

Call(xstart, ystart, xend, yend, args, vertical, kwargs) ==
    [xstart |-> xstart, ystart |-> ystart, xend |-> xend, yend |-> yend,
     args |-> args, vertical |-> vertical, kwargs |-> kwargs]

\* Four inputs of any sizes up to MaxLen, in both orientations.
ShapeCalls ==
    {Call(Fill(0, 1, a), Fill(10, 2, b), Fill(20, 5, c), Fill(40, 3, d), <<>>, v, <<>>) :
        a \in 0..MaxLen, b \in 0..MaxLen, c \in 0..MaxLen, d \in 0..MaxLen,
        v \in BOOLEAN}

Coord == {0, 20, 45}

\* One arrow given by four scalars, as in pitch.arrows(20, 20, 45, 80, ax=ax).
ScalarCalls ==
    {Call(Scalar(a), Scalar(b), Scalar(c), Scalar(d), <<>>, v, <<>>) :
        a \in Coord, b \in Coord, c \in Coord, d \in Coord, v \in BOOLEAN}

\* The array-like of a shape (<<>> for a scalar, <<n>>, or <<rows, columns>>)
\* whose k-th element in row-major order is base + step * k.
Array(shape, base, step) ==
    IF shape = <<>> THEN Scalar(base + step)
    ELSE IF Len(shape) = 1 THEN Fill(base, step, shape[1])
    ELSE List(FirstN([i \in 1..shape[1] |->
                  List(FirstN([j \in 1..shape[2] |->
                                  Scalar(base + step * ((i - 1) * shape[2] + j))],
                              shape[2]))],
              shape[1]))

\* A scalar, one dimension of 0..MaxLen elements or as many as the largest
\* matrix, two dimensions of 1..MaxLen rows and one or MaxLen columns.
Shapes ==
    {<<>>} \cup {<<n>> : n \in 0..MaxLen} \cup {<<MaxLen * MaxLen>>}
           \cup {<<r, c>> : r \in 1..MaxLen, c \in {1, MaxLen}}

\* Four inputs of any of the shapes, in both orientations.
RavelCalls ==
    {Call(Array(a, 0, 1), Array(b, 10, 2), Array(c, 20, 5), Array(d, 40, 3), <<>>, v, <<>>) :
        a \in Shapes, b \in Shapes, c \in Shapes, d \in Shapes, v \in BOOLEAN}

\* The call of the docstring: arrows([0.1, 0.4], [0.1, 0.5], [0.9, 0.4], [0.8, 0.8], ax=ax),
\* in tenths.
ExampleCall(args, vertical, kwargs) ==
    Call(List(<<Scalar(1), Scalar(4)>>), List(<<Scalar(1), Scalar(5)>>),
         List(<<Scalar(9), Scalar(4)>>), List(<<Scalar(8), Scalar(8)>>),
         args, vertical, kwargs)

\* Keyword arguments a caller may pass.
KwItems ==
    { <<"units", "x">>, <<"scale_units", "width">>, <<"angles", "uv">>,
      <<"scale", Float(2)>>, <<"width", Float(8)>>, <<"headwidth", Float(4)>>,
      <<"color", "red">> }

RECURSIVE KwSeqs(_)
\* The dicts of at most n items with distinct names, in every order.
KwSeqs(n) ==
    IF n = 0 THEN {<<>>}
    ELSE LET shorter == KwSeqs(n - 1)
         IN  shorter \cup
             {Append(kw, item) : kw \in {k \in shorter : Len(k) = n - 1},
                                 item \in KwItems} 

DistinctNames(kw) == Cardinality(Keys(kw)) = Len(kw)

KwCalls ==
    {ExampleCall(<<>>, v, kw) :
        v \in BOOLEAN, kw \in {k \in KwSeqs(MaxKw) : DistinctNames(k)}}
    \cup
    {ExampleCall(args, v, kw) :
        args \in {<<"C">>, <<"C", "D">>}, v \in BOOLEAN,
        kw \in {<<>>, << <<"color", "red">>, <<"units", "dots">> >>}}

\* Every width with a significand of Prec bits, with and without other units.
Widths == {Float(w) : w \in 1..(Pow2(Prec) - 1)}

WidthCalls ==
    {ExampleCall(<<>>, FALSE, kw) :
        kw \in {<< <<"width", w>> >> : w \in Widths}
               \cup {<< <<"width", w>>, <<"units", "x">> >> : w \in Widths}
               \cup {<<>>, << <<"units", "dots">> >>}}

Style(edgecolor, facecolor, linewidths) ==
    [edgecolor |-> edgecolor, facecolor |-> facecolor, linewidths |-> linewidths]

PlainStyle == Style(<<"k">>, <<"b">>, <<Float(1)>>)

Styles ==
    {Style(ec, fc, lw) :
        ec \in {<<>>, <<"k">>, <<"r", "k">>}, fc \in {<<>>, <<"g", "b">>},
        lw \in {<<>>, <<Float(1)>>, <<Float(2), Float(1)>>}}

Handle(width, headwidth, headlength, headaxislength, st) ==
    [width |-> width, headwidth |-> headwidth, headlength |-> headlength,
     headaxislength |-> headaxislength, edgecolor |-> st.edgecolor,
     facecolor |-> st.facecolor, linewidths |-> st.linewidths]

\* Quivers made by other code: any stored width and head multipliers.
Handles ==
    {Handle(w, hw, hl, hal, PlainStyle) :
        w \in {<<1, -4>>, <<7, -7>>},
        hw \in {Float(1), Float(3)},
        hl \in {Float(0), Float(3), Float(5)},
        hal \in {Float(3), <<9, -1>>, Float(5), Float(6)}}
    \cup
    {Handle(<<7, -7>>, DefaultHeadWidth, hl, DefaultHeadAxisLength, st) :
        hl \in {Float(0), DefaultHeadLength}, st \in Styles}

Box(xdata, ydescent, height) ==
    [xdata |-> xdata, ydescent |-> ydescent, height |-> height, trans |-> "trans"]

\* Legend boxes: the x positions get_xdata returns (two or more) and the box.
Boxes ==
    { Box(<<Float(-2), Float(18)>>, Float(2), Float(9)),
      Box(<<Float(3), Float(10), Float(17)>>, Float(0), Float(7)) }

OneBox == {Box(<<Float(0), Float(20)>>, Float(0), Float(7))}

\* The calls a run goes on with: the docstring's call in both orientations,
\* and two calls that fail the size check (the second in two comparisons).
LaterCalls ==
    { ExampleCall(<<>>, FALSE, <<>>), ExampleCall(<<>>, TRUE, <<>>),
      Call(Fill(0, 1, 2), Fill(10, 2, 1), Fill(20, 5, 2), Fill(40, 3, 2), <<>>, FALSE, <<>>),
      Call(Scalar(20), Scalar(20), List(<<>>), List(<<>>), <<>>, TRUE, <<>>) }

(***************************************************************************)
(* The state machine.                                                      *)
(***************************************************************************)
OtherHandler(class) == [class |-> class, id |-> 0]

\* The default handler map before the first call: Matplotlib's own entries
\* (two of them), possibly with a Quiver entry registered by other code, or
\* an empty map.
InitialMaps ==
    LET line == <<"Line2D", OtherHandler("HandlerLine2D")>>
        poly == <<"PolyCollection", OtherHandler("HandlerPolyCollection")>>
        quiver == <<"Quiver", OtherHandler("HandlerPolyCollection")>>
    IN  { <<line, poly>>, <<line, quiver, poly>>, <<line>> }

Init ==
    /\ ax = [n_artists |-> 0, last |-> <<>>, made_by |-> <<>>]
    /\ default_handler_map \in InitialMaps
    /\ handlers_created = 0
    /\ call = [op |-> "none"]
    /\ ret = [outcome |-> "none", exc |-> "", msg |-> "", value |-> <<>>]

\* A call of arrows(), the first call of a run from First and the later ones
\* from Later; or a legend entry for a Quiver of the axes or one made by other
\* code (one of others, as long as no entry has followed the last call).
Step(first, later, others, looks, boxes) ==
    \/ \E c \in (IF call.op = "none" THEN first ELSE later) : arrows(c)
    \/ \E h \in (IF call.op = "arrows" THEN others ELSE {}) \cup AxesHandles(looks),
          g \in boxes : create_artists(h, g)

(***************************************************************************)
(* Specifications: the same machine over different families of inputs.     *)
(***************************************************************************)
NoHandles == {}
PlainStyles == {PlainStyle}

ShapeFirst == ShapeCalls \cup ScalarCalls
NextShapes == Step(ShapeFirst, LaterCalls, NoHandles, PlainStyles, OneBox)
SpecShapes == Init /\ [][NextShapes]_vars

NextKw == Step(KwCalls, LaterCalls, NoHandles, PlainStyles, OneBox)
SpecKw == Init /\ [][NextKw]_vars

NextWidth == Step(WidthCalls, LaterCalls, NoHandles, PlainStyles, OneBox)
SpecWidth == Init /\ [][NextWidth]_vars

NextLegend == Step(LaterCalls, LaterCalls, Handles, Styles, Boxes)
SpecLegend == Init /\ [][NextLegend]_vars

\* One call on inputs of any shapes, from Matplotlib's own handler map.
NoCalls == {}
MatplotlibMap ==
    << <<"Line2D", OtherHandler("HandlerLine2D")>>,
       <<"PolyCollection", OtherHandler("HandlerPolyCollection")>> >>
InitRavel == Init /\ default_handler_map = MatplotlibMap
NextRavel == Step(RavelCalls, NoCalls, NoHandles, PlainStyles, OneBox)
SpecRavel == InitRavel /\ [][NextRavel]_vars

(***************************************************************************)
(* The claims.                                                             *)
(***************************************************************************)
IsArrowsCall == call.op = "arrows"
ArrowsReturned == IsArrowsCall /\ ret.outcome = "return"
ArrowsRaised == IsArrowsCall /\ ret.outcome = "raise"

RECURSIVE Sum(_)
Sum(ns) == IF ns = <<>> THEN 0 ELSE Head(ns) + Sum(Tail(ns))

\* The number of elements of an array-like.
RECURSIVE Count(_)
Count(a) == IF IsScalar(a) THEN 1 ELSE Sum([i \in 1..Len(a[2]) |-> Count(a[2][i])])

SizesOf(c) == <<Count(c.xstart), Count(c.ystart), Count(c.xend), Count(c.yend)>>

AllSizesEqual(c) == \A i, j \in 1..4 : SizesOf(c)[i] = SizesOf(c)[j]

\* C1: a call of arrows() raises the ValueError of the size check exactly when
\* the four flattened inputs do not all have the same number of elements: any
\* two sizes that differ (xend and yend included) end the call in the error,
\* and four equal sizes let it return.
C1_SizeMismatchRaises ==
    IsArrowsCall =>
        /\ ~AllSizesEqual(call) <=> (ret.outcome = "raise" /\ ret.exc = "ValueError")
        /\ AllSizesEqual(call) <=> ret.outcome = "return"

\* C1's case: xend and yend differ in size, a pair the code never compares,
\* while xstart and ystart agree; the call has raised.
C1_Witness ==
    /\ ArrowsRaised
    /\ SizesOf(call)[1] = SizesOf(call)[2]
    /\ SizesOf(call)[3] # SizesOf(call)[4]
    /\ SizesOf(call)[3] > 0 /\ SizesOf(call)[4] > 0

\* C2: a call with vertical=False that returns hands ax.quiver X = xstart,
\* Y = ystart and, for every arrow i, U[i] = xend[i] - xstart[i] and
\* V[i] = yend[i] - ystart[i].
C2_DirectionIsEndMinusStart ==
    (ArrowsReturned /\ ~call.vertical) =>
        LET q == ret.value[1]
            xs == ravel(call.xstart)
            ys == ravel(call.ystart)
            xe == ravel(call.xend)
            ye == ravel(call.yend)
        IN  /\ q.X = xs /\ q.Y = ys
            /\ Len(q.U) = Len(xs) /\ Len(q.V) = Len(ys)
            /\ \A i \in 1..Len(xs) :
                   /\ q.U[i] = xe[i] - xs[i] /\ q.V[i] = ye[i] - ys[i]
                   /\ q.X[i] + q.U[i] = xe[i] /\ q.Y[i] + q.V[i] = ye[i]

\* C2's case: a horizontal call with two arrows whose directions differ from
\* each other and between x and y.
C2_Witness ==
    /\ ArrowsReturned /\ ~call.vertical
    /\ Len(ret.value[1].U) >= 2
    /\ ret.value[1].U[1] # ret.value[1].U[2]
    /\ ret.value[1].U[1] # ret.value[1].V[1]
    /\ ret.value[1].U[1] # 0 /\ ret.value[1].V[1] # 0

\* The call with x and y exchanged in both points and with vertical=False.
Transposed(c) ==
    [c EXCEPT !.xstart = c.ystart, !.ystart = c.xstart,
              !.xend = c.yend, !.yend = c.xend, !.vertical = FALSE]

\* C3: a call with vertical=True that returns hands ax.quiver X = ystart,
\* Y = xstart, U = yend - ystart and V = xend - xstart, the differences of the
\* inputs as given; these are the X, Y, U, V of the call with x and y exchanged
\* and vertical=False.
C3_VerticalSwitchesXAndY ==
    (ArrowsReturned /\ call.vertical) =>
        LET q == ret.value[1]
            xs == ravel(call.xstart)
            ys == ravel(call.ystart)
            xe == ravel(call.xend)
            ye == ravel(call.yend)
            t == Arrows(Transposed(call))
        IN  /\ q.X = ys /\ q.Y = xs
            /\ Len(q.U) = Len(xs) /\ Len(q.V) = Len(ys)
            /\ \A i \in 1..Len(xs) :
                   q.U[i] = ye[i] - ys[i] /\ q.V[i] = xe[i] - xs[i]
            /\ t.outcome = "return"
            /\ <<t.value[1].X, t.value[1].Y, t.value[1].U, t.value[1].V>>
                   = <<q.X, q.Y, q.U, q.V>>

\* C3's case: a vertical call with two arrows whose x and y differ in the start
\* points and in the directions.
C3_Witness ==
    /\ ArrowsReturned /\ call.vertical
    /\ Len(ret.value[1].U) >= 2
    /\ ret.value[1].X # ret.value[1].Y
    /\ ret.value[1].U # ret.value[1].V
    /\ ret.value[1].U[1] # 0 /\ ret.value[1].V[2] # 0

\* How often the keyword name occurs in the keywords kw.
Occurrences(kw, name) == Cardinality({i \in DOMAIN kw : kw[i][1] = name})

\* The keyword name reaches ax.quiver exactly once, with the value given.
ReachesOnce(kw, name, value) == Occurrences(kw, name) = 1 /\ Get(kw, name) = value

Supplied(c, name, default) ==
    IF name \in Keys(c.kwargs) THEN Get(c.kwargs, name) ELSE default

OptionNames == {"units", "scale_units", "angles", "scale", "width"}

NotAnOption(item) == item[1] \notin OptionNames

\* C6: of a call that returns, ax.quiver receives units, scale_units, angles and
\* scale with the caller's value or else 'inches', 'xy', 'xy' and 1; every
\* other keyword argument of the caller (width apart, which is converted)
\* unchanged; no keyword twice and none the caller did not pass; the extra
\* positional arguments unchanged and in order; and the same keywords and
\* extra arguments whatever vertical is.
C6_OptionsForwarded ==
    ArrowsReturned =>
        LET q == ret.value[1]
            other == Arrows([vertical |-> ~call.vertical, xstart |-> call.xstart,
                             ystart |-> call.ystart, xend |-> call.xend,
                             yend |-> call.yend, args |-> call.args,
                             kwargs |-> call.kwargs])
        IN  /\ ReachesOnce(q.kw, "units", Supplied(call, "units", "inches"))
            /\ ReachesOnce(q.kw, "scale_units", Supplied(call, "scale_units", "xy"))
            /\ ReachesOnce(q.kw, "angles", Supplied(call, "angles", "xy"))
            /\ ReachesOnce(q.kw, "scale", Supplied(call, "scale", <<1, 0>>))
            /\ Occurrences(q.kw, "width") = 1
            /\ \A i \in DOMAIN call.kwargs :
                   NotAnOption(call.kwargs[i]) =>
                       ReachesOnce(q.kw, call.kwargs[i][1], call.kwargs[i][2])
            /\ Keys(q.kw) = OptionNames \cup Keys(call.kwargs)
            /\ Len(q.kw) = Cardinality(Keys(q.kw))
            /\ SelectSeq(q.kw, NotAnOption) = SelectSeq(call.kwargs, NotAnOption)
            /\ q.args = call.args
            /\ other.outcome = "return"
            /\ other.value[1].kw = q.kw /\ other.value[1].args = q.args

\* C6's case: a vertical call with two extra positional arguments that passes
\* its own units after a keyword arrows() does not read.
C6_Witness ==
    /\ ArrowsReturned /\ call.vertical
    /\ Len(call.args) = 2 /\ Len(call.kwargs) = 2
    /\ call.kwargs[1][1] = "color" /\ call.kwargs[2][1] = "units"
    /\ Len(ret.value[1].kw) = 6

IsLegendCall == call.op = "create_artists"
LegendReturned == IsLegendCall /\ ret.outcome = "return"

\* The artist create_artists returned (the first one).
Glyph == ret.value[1][1]

\* The handle of the legend entry is the Quiver the last arrows() call made.
FromArrows ==
    /\ ax.last # <<>>
    /\ LET h == call.orig_handle
       IN  h = QuiverArtist(ax.last[1], Style(h.edgecolor, h.facecolor, h.linewidths))

\* The width that call was given, in points (4 when it gave none).
WidthGiven == Supplied(ax.made_by[1], "width", <<1, 2>>)

\* 72, as a float.
SeventyTwo == <<9, 3>>

Twice(a) == IF a[1] = 0 THEN a ELSE <<a[1], a[2] + 1>>

\* The glyph of the same legend entry for another handle.
GlyphOf(h) == CreateArtists(h, call.legend).value[1][1]

\* C4: the glyph's shaft width is the stored width * 72, its head width is
\* (stored width * 72) * headwidth and its head length (stored width * 72) *
\* headlength; doubling the stored width doubles all three, doubling headwidth
\* doubles the head width alone, doubling headlength the head length alone.
C4_HeadScalesWithShaft ==
    LegendReturned =>
        LET h == call.orig_handle
            shaft == FMul(h.width, SeventyTwo)
            wider == GlyphOf([h EXCEPT !.width = Twice(h.width)])
            broader == GlyphOf([h EXCEPT !.headwidth = Twice(h.headwidth)])
            longer == GlyphOf([h EXCEPT !.headlength = Twice(h.headlength)])
        IN  /\ Glyph.width = shaft
            /\ Glyph.head_width = FMul(shaft, h.headwidth)
            /\ Glyph.head_length = FMul(shaft, h.headlength)
            /\ wider.width = Twice(Glyph.width)
            /\ wider.head_width = Twice(Glyph.head_width)
            /\ wider.head_length = Twice(Glyph.head_length)
            /\ broader.head_width = Twice(Glyph.head_width)
            /\ broader.head_length = Glyph.head_length
            /\ broader.width = Glyph.width
            /\ longer.head_length = Twice(Glyph.head_length)
            /\ longer.head_width = Glyph.head_width
            /\ longer.width = Glyph.width

\* C4's case: a glyph whose head width and head length differ from each other
\* and from the shaft width.
C4_Witness ==
    /\ LegendReturned
    /\ call.orig_handle.headwidth # call.orig_handle.headlength
    /\ Glyph.head_width # Glyph.head_length
    /\ Glyph.head_width # Glyph.width
    /\ Glyph.head_length # Glyph.width

\* The significand of the float a takes fewer than Prec bits.
OneBitSpare(a) == 2 * Abs(a[1]) < Lowest

\* The floats a and b are equal or one unit in the last place of b apart.
WithinOneUlp(a, b) ==
    LET e == Min(a[2], b[2])
        topbit == CHOOSE k \in 0..Prec : Pow2(k) <= 2 * Abs(b[1]) /\ 2 * Abs(b[1]) < Pow2(k + 1)
        ulp == b[2] - (Prec - topbit)
    IN  IF ulp >= e THEN Abs(Scaled(a, e) - Scaled(b, e)) <= Pow2(ulp - e)
        ELSE Scaled(a, e) = Scaled(b, e)

\* C5 as stated: the legend glyph of a Quiver made by arrows() with width w has
\* the shaft width w, whatever the units of the call.
C5_WidthSurvivesRoundTrip ==
    (LegendReturned /\ FromArrows) => Glyph.width = WidthGiven

\* C5, amended: arrows() hands ax.quiver the width w / 72 and the glyph's shaft
\* width is that * 72, whatever the units; it equals w when w's significand
\* leaves one bit of the float unused, and is w or a float next to w otherwise.
C5_WidthRoundTripUpToRounding ==
    (LegendReturned /\ FromArrows) =>
        /\ Get(ax.last[1].kw, "width") = FDiv(WidthGiven, SeventyTwo)
        /\ Occurrences(ax.last[1].kw, "width") = 1
        /\ Glyph.width = FMul(FDiv(WidthGiven, SeventyTwo), SeventyTwo)
        /\ OneBitSpare(WidthGiven) => Glyph.width = WidthGiven
        /\ WithinOneUlp(Glyph.width, WidthGiven)

\* C5's case: the legend entry of a call that set its own units and a width
\* other than the default, which has come back unchanged.
C5_Witness ==
    /\ LegendReturned /\ FromArrows
    /\ Supplied(ax.made_by[1], "units", "inches") = "x"
    /\ WidthGiven = <<7, 0>>
    /\ Glyph.width = <<7, 0>>

FEqual(a, b) == ~FLess(a, b) /\ ~FLess(b, a)
Zero == <<0, 0>>

\* C7: a glyph's overhang is (headlength - headaxislength) / headlength: zero
\* when headaxislength equals headlength, negative when it is greater, positive
\* when it is less, for a handle with headlength > 0; with headlength = 0 the
\* call raises ZeroDivisionError and returns no glyph.
C7_OverhangFollowsHeadAxisLength ==
    IsLegendCall =>
        LET h == call.orig_handle
        IN  /\ FEqual(h.headlength, Zero) =>
                   (ret.outcome = "raise" /\ ret.exc = "ZeroDivisionError")
            /\ (ret.outcome = "return" /\ FLess(Zero, h.headlength)) =>
                   /\ Glyph.overhang =
                          FDiv(FSub(h.headlength, h.headaxislength), h.headlength)
                   /\ FEqual(Glyph.overhang, Zero) <=> FEqual(h.headaxislength, h.headlength)
                   /\ FLess(Glyph.overhang, Zero) <=> FLess(h.headlength, h.headaxislength)
                   /\ FLess(Zero, Glyph.overhang) <=> FLess(h.headaxislength, h.headlength)

\* C7's case: a wedge, a glyph of a handle whose headaxislength is greater than
\* its headlength.
C7_Witness ==
    /\ LegendReturned
    /\ FLess(call.orig_handle.headlength, call.orig_handle.headaxislength)
    /\ FLess(Glyph.overhang, Zero)

\* The exact sum of two floats equals the float c.
SumIs(a, b, c) ==
    LET e == Min(Min(a[2], b[2]), c[2]) IN Scaled(a, e) + Scaled(b, e) = Scaled(c, e)

\* C10 as stated: for any Quiver handle create_artists returns exactly one
\* artist, with the first edge colour, face colour (None for an empty
\* sequence) and line width of the handle, horizontal, from the first legend x
\* position to the last, head included.
C10_OneGlyphForAnyHandle ==
    IsLegendCall =>
        /\ ret.outcome = "return"
        /\ Len(ret.value[1]) = 1
        /\ LET h == call.orig_handle
               g == call.legend
           IN  /\ Glyph.edgecolor = IF h.edgecolor = <<>> THEN "None" ELSE Head(h.edgecolor)
               /\ Glyph.facecolor = IF h.facecolor = <<>> THEN "None" ELSE Head(h.facecolor)
               /\ Glyph.lw = Head(h.linewidths)
               /\ Glyph.dy = Zero
               /\ Glyph.x = Head(g.xdata)
               /\ SumIs(Glyph.x, Glyph.dx, g.xdata[Len(g.xdata)])
               /\ Glyph.length_includes_head

QuiverRegistered(map) ==
    /\ Occurrences(map, "Quiver") = 1
    /\ Get(map, "Quiver").class = "HandlerQuiver"

\* C8: once a call of arrows() has returned, the default handler map maps
\* Quiver to a HandlerQuiver; a call that returns registers a handler no entry
\* held before under Quiver, keeps every other entry as it was and adds no
\* other type, so the registered types are those from before plus Quiver.
C8_QuiverHandlerRegistered ==
    /\ [](ax.n_artists > 0 => QuiverRegistered(default_handler_map))
    /\ [][(call'.op = "arrows" /\ ret'.outcome = "return") =>
            /\ QuiverRegistered(default_handler_map')
            /\ \A k \in Keys(default_handler_map) :
                   Get(default_handler_map', "Quiver") # Get(default_handler_map, k)
            /\ Keys(default_handler_map') = Keys(default_handler_map) \cup {"Quiver"}
            /\ \A k \in Keys(default_handler_map) \ {"Quiver"} :
                   /\ Get(default_handler_map', k) = Get(default_handler_map, k)
                   /\ Occurrences(default_handler_map', k) = 1
          ]_vars

\* C8's case: a second call has returned; its handler stands in place of the
\* first call's, with the two entries other code registered around it.
C8_Witness ==
    /\ ArrowsReturned
    /\ ax.n_artists = 2
    /\ Len(default_handler_map) = 3
    /\ Get(default_handler_map, "Quiver") = [class |-> "HandlerQuiver", id |-> 2]
    /\ Get(default_handler_map, "Line2D").class = "HandlerLine2D"
    /\ Get(default_handler_map, "PolyCollection").class = "HandlerPolyCollection"

\* The message of the first comparison that fails for the inputs as passed.
FirstFailingPair(c) ==
    IF Count(c.xstart) # Count(c.ystart) THEN "xstart and ystart must be the same size"
    ELSE IF Count(c.xstart) # Count(c.xend) THEN "xstart and xend must be the same size"
    ELSE "ystart and yend must be the same size"

\* C9: a call of arrows() that raises leaves the axes and the default handler
\* map as they were (ax.quiver is not called, no handler is created); the
\* error is the ValueError of the first of the comparisons xstart/ystart,
\* xstart/xend, ystart/yend that fails for the inputs as passed, in either
\* orientation.
C9_FailedCallChangesNothing ==
    [][(call'.op = "arrows" /\ ret'.outcome = "raise") =>
          /\ ax' = ax
          /\ default_handler_map' = default_handler_map
          /\ handlers_created' = handlers_created
          /\ ret'.exc = "ValueError"
          /\ ret'.msg = FirstFailingPair(call')
      ]_vars

\* C9's case: a vertical call on axes that hold a Quiver already, whose second
\* and third comparisons both fail, has raised the error of the second.
C9_Witness ==
    /\ ArrowsRaised /\ call.vertical
    /\ ax.n_artists = 1
    /\ QuiverRegistered(default_handler_map)
    /\ Count(call.xstart) = Count(call.ystart)
    /\ Count(call.xstart) # Count(call.xend)
    /\ Count(call.ystart) # Count(call.yend)
    /\ ret.msg = "xstart and xend must be the same size"

\* The k-th element of an array-like, counting along the last axis first.
RECURSIVE ElementAt(_, _)
ElementAt(a, k) ==
    IF IsScalar(a) THEN a[2]
    ELSE LET before(i) == Sum([j \in 1..(i - 1) |-> Count(a[2][j])])
             i == CHOOSE n \in 1..Len(a[2]) : before(n) < k /\ k <= before(n + 1)
         IN  ElementAt(a[2][i], k - before(i))

\* The nesting depth of an array-like: 0 for a scalar.
Depth(a) == IF IsScalar(a) THEN 0 ELSE IF a[2] = <<>> \/ IsScalar(a[2][1]) THEN 1 ELSE 2

\* A one-dimensional array of n integers.
OneDimensional(x, n) == DOMAIN x = 1..n /\ \A i \in 1..n : x[i] \in Int

\* C11: arrows() flattens its four inputs before comparing and subtracting: it
\* raises exactly when their element counts differ, whatever their shapes (a
\* scalar counts one element and is not broadcast against a longer input);
\* when it returns, X, Y, U, V are one-dimensional with as many elements as
\* each input, and element i is made of the i-th elements of the inputs in
\* row-major order.
C11_InputsAreFlattened ==
    IsArrowsCall =>
        LET n == Count(call.xstart)
            inputs == <<call.xstart, call.ystart, call.xend, call.yend>>
        IN  /\ ret.outcome = "raise" <=> ~AllSizesEqual(call)
            /\ ((\E i \in 1..4 : IsScalar(inputs[i])) /\ (\E i \in 1..4 : Count(inputs[i]) > 1))
                   => (ret.outcome = "raise" /\ ret.exc = "ValueError")
            /\ (\A i \in 1..4 : IsScalar(inputs[i])) => ret.outcome = "return"
            /\ ret.outcome = "return" =>
                   LET q == ret.value[1]
                       locx == IF call.vertical THEN q.Y ELSE q.X
                       locy == IF call.vertical THEN q.X ELSE q.Y
                       dirx == IF call.vertical THEN q.V ELSE q.U
                       diry == IF call.vertical THEN q.U ELSE q.V
                   IN  /\ OneDimensional(q.X, n) /\ OneDimensional(q.Y, n)
                       /\ OneDimensional(q.U, n) /\ OneDimensional(q.V, n)
                       /\ \A i \in 1..n :
                              /\ locx[i] = ElementAt(call.xstart, i)
                              /\ locy[i] = ElementAt(call.ystart, i)
                              /\ dirx[i] = ElementAt(call.xend, i) - ElementAt(call.xstart, i)
                              /\ diry[i] = ElementAt(call.yend, i) - ElementAt(call.ystart, i)

\* C11's case: a call whose xstart has rows and columns (two or more of each)
\* and whose other inputs are flat with as many elements has returned; the
\* second arrow starts at the second element of xstart's first row.
C11_Witness ==
    /\ ArrowsReturned /\ ~call.vertical
    /\ Depth(call.xstart) = 2
    /\ Len(call.xstart[2]) >= 2 /\ Len(call.xstart[2][1][2]) >= 2
    /\ Depth(call.ystart) = 1 /\ Depth(call.xend) = 1 /\ Depth(call.yend) = 1
    /\ Len(ret.value[1].X) = Len(call.xend[2])
    /\ ret.value[1].X[2] = call.xstart[2][1][2][2][2]
====
